---- MODULE Spec2Model ----
(***************************************************************************)
(* MedApp API (src/main.py, src/auth.py): the request handlers over the    *)
(* SQL store, with the bearer-token dependency get_current_user evaluated  *)
(* as the first step of every handler that declares it.                    *)
(*                                                                         *)
(* Time is counted in ticks of 1/TicksPerSecond second, so that the        *)
(* whole-second NumericDate of a JWT "exp" claim (jwt.encode/jwt.decode)   *)
(* is coarser than the clock.                                              *)
(***************************************************************************)
EXTENDS Integers, Sequences, FiniteSets, TLC

\* ------------------------------------------------------------------ bounds
MaxPatients == 1
MaxChildren == 1
MaxTokens == 1
MaxSubTicks == 2
MaxDays == 1
MaxRequests == 2

\* ------------------------------------------------------- program constants
\* auth.py:18  ACCESS_TOKEN_EXPIRE_MINUTES = int(os.getenv(..., "1440"))
ACCESS_TOKEN_EXPIRE_MINUTES == 1440
\* auth.py:16  SECRET_KEY
SECRET_KEY == "CLAVE_SUPER_SECRETA"
\* main.py:52  UPLOAD_DIR
UPLOAD_DIR == "uploads"

TicksPerSecond == 2
TicksPerMinute == 60 * TicksPerSecond
\* timedelta(minutes=ACCESS_TOKEN_EXPIRE_MINUTES), in ticks
DefaultDelta == ACCESS_TOKEN_EXPIRE_MINUTES * TicksPerMinute

\* ------------------------------------------------------------- input sets
None == "None"
Emails == {"a@x.com", "b@x.com"}
UserNames == {"u"}
\* a password is the text of its first 72 UTF-8 bytes and its byte length
Passwords == {[head |-> "secret123", bytes |-> 9],
              [head |-> "otra", bytes |-> 4],
              [head |-> "L72", bytes |-> 72],
              [head |-> "L72", bytes |-> 73]}
Salts == {"s1", "s2"}
\* patient names are sequences of characters; search strings likewise
PatientNames == {<<"A", "n">>, <<"e">>}
Searches == {None, <<"a">>, <<"N">>, <<"e", "v">>}
Payloads == {"d1", "d2"}
Extensions == {".jpg", ""}
PatientIds == 1..(MaxPatients + 1)
ChildIds == 1..(MaxChildren + 1)

VARIABLES
    users,          \* table User:        id -> [name, email, password_hash]
    patients,       \* table Patient:     id -> [user_id, name]
    appointments,   \* table Appointment: id -> [patient_id, data]
    notes,          \* table MedicalNote: id -> [patient_id, text]
    vitals,         \* table VitalSign:   id -> [patient_id, data]
    photos,         \* table Photo:       id -> [patient_id, url, caption]
    files,          \* names of the files under UPLOAD_DIR
    seq,            \* next primary key of each table, next uuid
    now,            \* wall clock, in ticks
    issued,         \* tokens returned by login
    reqs,           \* register requests past their checks, insert pending
    resp            \* the response of the last request handled

store == <<users, patients, appointments, notes, vitals, photos, files>>
vars == <<users, patients, appointments, notes, vitals, photos, files,
          seq, now, issued, reqs, resp>>

\* ------------------------------------------------------------- conversions
\* str(user.id) of main.py:88, for the ids of the model
Digits == <<"1", "2", "3", "4", "5", "6", "7", "8", "9">>
str(n) == Digits[n]

\* int(payload.get("sub")) of auth.py:53: the integer, or Raises when int()
\* raises (TypeError on a missing subject, ValueError on a non-numeric one).
\* int() strips blanks and accepts leading zeros and a sign.
Raises == 0 - 1
Literals == [n \in 1..Len(Digits) |-> {Digits[n], "0" \o Digits[n], " " \o Digits[n]}]
int(s) ==
    IF \E n \in 1..Len(Digits) : s \in Literals[n]
    THEN CHOOSE n \in 1..Len(Digits) : s \in Literals[n]
    ELSE Raises

\* timegm(dt.utctimetuple()): a datetime as whole seconds (jose, "exp")
timegm(t) == t \div TicksPerSecond

\* str.lower() on the characters of the model
lower(s) == [i \in 1..Len(s) |->
               CASE s[i] = "A" -> "a" [] s[i] = "N" -> "n" [] OTHER -> s[i]]

\* SQL  lower(name) LIKE '%pat%'
like(name, pat) ==
    \E i \in 1..(Len(name) - Len(pat) + 1) :
        SubSeq(name, i, i + Len(pat) - 1) = pat

\* ------------------------------------------------------------------- auth
\* bcrypt.hashpw(password, salt), as the set of its outcomes. The digest
\* covers the first 72 bytes. Given more than 72 bytes, bcrypt before 5.0
\* hashes the first 72 and bcrypt 5.0 and later raises ValueError; the
\* repository pins no version, so both are outcomes.
ValueError == [salt |-> None, digest |-> "ValueError"]
hashpw(password, salt) ==
    IF password.bytes > 72
    THEN {[salt |-> salt, digest |-> password.head], ValueError}
    ELSE {[salt |-> salt, digest |-> password.head]}

\* variant: hash_password with the length check of main.py:70 in it
ValidationError == [salt |-> None, digest |-> "ValidationError"]
hash_password_guarded(password, salt) ==
    IF password.bytes > 72 THEN {ValidationError} ELSE hashpw(password, salt)

\* hash_password(password), with the salt bcrypt.gensalt() drew: the set of
\* its outcomes, a hash or ValueError
hash_password(password, salt) == hashpw(password, salt)

\* bcrypt.checkpw(plain, hashed) hashes plain with the salt of hashed and
\* compares: the set of its outcomes, "True", "False" or "ValueError"
verify_password(plain, hashed) ==
    {IF h = ValueError THEN "ValueError" ELSE IF h = hashed THEN "True" ELSE "False" :
        h \in hashpw(plain, hashed.salt)}

\* create_access_token(data, expires_delta) evaluated at clock time t; an
\* expires_delta of 0 stands for None and for timedelta(0), both falsy
\* variant: create_access_token that encodes {"exp": expire} without data
create_access_token_no_data(data, expires_delta, t) ==
    LET expire == t + (IF expires_delta # 0 THEN expires_delta ELSE DefaultDelta)
    IN [key |-> SECRET_KEY, sub |-> None, exp |-> timegm(expire)]

create_access_token(data, expires_delta, t) ==
    LET expire == t + (IF expires_delta # 0 THEN expires_delta ELSE DefaultDelta)
    IN [key |-> SECRET_KEY, sub |-> data, exp |-> timegm(expire)]

NoToken == [key |-> None, sub |-> None, exp |-> 0]

\* variant: jwt.decode with options={"verify_exp": False}
decode_raises_no_exp(token, t) == token.key # SECRET_KEY

\* jwt.decode(token, SECRET_KEY): TRUE when it raises
decode_raises(token, t) ==
    \/ token.key # SECRET_KEY
    \/ token.exp < timegm(t)

\* get_current_user: the User's id, or NoUser when 401 is raised
NoUser == 0

\* variant: get_current_user without the "if not user" check of auth.py:57
get_current_user_no_lookup(token) ==
    IF token = NoToken THEN NoUser
    ELSE IF decode_raises(token, now) THEN NoUser
    ELSE IF int(token.sub) = Raises THEN NoUser
    ELSE int(token.sub)

get_current_user(token) ==
    IF token = NoToken THEN NoUser
    ELSE IF decode_raises(token, now) THEN NoUser
    ELSE IF int(token.sub) = Raises THEN NoUser
    ELSE IF int(token.sub) \notin DOMAIN users THEN NoUser
    ELSE int(token.sub)

\* tokens a client may present that login did not return
ForgedTokens ==
    {NoToken}
    \cup [key : {"otra"}, sub : {"1"}, exp : {timegm(now) + 1}]
    \cup [key : {SECRET_KEY}, sub : {"1"}, exp : {timegm(now) - 1}]
    \cup [key : {SECRET_KEY}, sub : {None, "abc", "9", "02"}, exp : {timegm(now) + 1}]

\* issued holds each token login returned, with the clock time of its issue
RequestTokens == {i.token : i \in issued} \cup ForgedTokens

\* ------------------------------------------------------------- responses
NoResp == [op |-> "none", token |-> NoToken, status |-> 0, uid |-> NoUser,
           id |-> 0, extra |-> 0, body |-> {}]
\* requests are handled one at a time: a handler runs when no response is
\* pending, and Return hands the pending response to the client
Idle == resp = NoResp

Return ==
    /\ resp # NoResp
    /\ resp' = NoResp
    /\ UNCHANGED <<store, seq, now, issued, reqs>>

\* resp is the response being returned, with the request it answers: the
\* operation, the token presented, the user the token resolved to, the id in
\* the path and the ownership key the body carried (0: none)
ReplyTo(op, token, status, uid, id, extra, body) ==
    resp' = [op |-> op, token |-> token, status |-> status, uid |-> uid,
             id |-> id, extra |-> extra, body |-> body]

Reply(op, token, status, uid, id, body) == ReplyTo(op, token, status, uid, id, 0, body)

\* HTTPException(401) raised by the get_current_user dependency
Unauthorized(op, token) ==
    /\ Reply(op, token, 401, NoUser, 0, {})
    /\ UNCHANGED <<store, seq, now, issued, reqs>>

\* HTTPException(status) raised by a handler
Abort(op, token, status, uid, id) ==
    /\ Reply(op, token, status, uid, id, {})
    /\ UNCHANGED <<store, seq, now, issued, reqs>>

Remove(table, id) == [k \in DOMAIN table \ {id} |-> table[k]]
Insert(table, id, row) == [k \in DOMAIN table \cup {id} |-> IF k = id THEN row ELSE table[k]]

\* for k, v in p.dict().items(): setattr(row, k, v)
setattrs(row, d) == [k \in DOMAIN row |-> IF k \in DOMAIN d THEN d[k] ELSE row[k]]

\* ---------------------------------------------------------------- schemas
\* A request body may carry any keys; the schema keeps the declared ones.
\* PatientCreate declares no user_id and AppointmentCreate / VitalSignCreate
\* no patient_id: main.py:117, 198, 353 pass them next to **p.dict().
\* (an extra key of 0 stands for a body without that key)
PatientBodies == [name : PatientNames, user_id : {0, 1, 2}]
ChildBodies == [data : Payloads, patient_id : {0, 1, 2}]
NoteBodies == [text : Payloads, patient_id : {0, 1, 2}]

\* variant: a schema that declares the ownership key
PatientCreate_dict_with_owner(body) == [name |-> body.name, user_id |-> body.user_id]

PatientCreate_dict(body) == [name |-> body.name]
AppointmentCreate_dict(body) == [data |-> body.data]
VitalSignCreate_dict(body) == [data |-> body.data]

\* ---------------------------------------------------------------- patients
PatientOut(pid) == [id |-> pid, user_id |-> patients[pid].user_id, name |-> patients[pid].name]

\* variant: the query without its Patient.user_id == user.id condition
owned_patient_any_owner(pid, uid) ==
    {p \in DOMAIN patients : p = pid}

\* select(Patient).where(Patient.id == pid, Patient.user_id == uid).first()
\* as the set of matching ids: empty when first() is None
owned_patient(pid, uid) ==
    {p \in DOMAIN patients : p = pid /\ patients[p].user_id = uid}

\* variant: list_patients without its where(Patient.user_id == user.id)
list_patients_all ==
    /\ Idle
    /\ \E token \in RequestTokens :
        LET user == get_current_user(token) IN
        IF user = NoUser THEN Unauthorized("list_patients", token)
        ELSE \E search \in Searches :
            LET found == IF search # None
                         THEN {p \in DOMAIN patients : like(lower(patients[p].name), lower(search))}
                         ELSE DOMAIN patients
            IN /\ Reply("list_patients", token, 200, user, 0, {PatientOut(p) : p \in found})
               /\ UNCHANGED <<store, seq, now, issued, reqs>>

list_patients ==
    /\ Idle
    /\ \E token \in RequestTokens :
        LET user == get_current_user(token) IN
        IF user = NoUser THEN Unauthorized("list_patients", token)
        ELSE \E search \in Searches :
            LET mine == {p \in DOMAIN patients : patients[p].user_id = user}
                found == IF search # None
                         THEN {p \in mine : like(lower(patients[p].name), lower(search))}
                         ELSE mine
            IN /\ Reply("list_patients", token, 200, user, 0, {PatientOut(p) : p \in found})
               /\ UNCHANGED <<store, seq, now, issued, reqs>>

create_patient ==
    /\ Idle
    /\ \E token \in RequestTokens :
        LET user == get_current_user(token) IN
        IF user = NoUser THEN Unauthorized("create_patient", token)
        ELSE \E body \in PatientBodies :
            LET pid == seq.patient
                row == [user_id |-> user] @@ PatientCreate_dict(body)
            IN /\ pid <= MaxPatients
               /\ patients' = Insert(patients, pid, row)
               /\ seq' = [seq EXCEPT !.patient = pid + 1]
               /\ ReplyTo("create_patient", token, 201, user, 0, body.user_id,
                        {[id |-> pid, user_id |-> row.user_id, name |-> row.name]})
               /\ UNCHANGED <<users, appointments, notes, vitals, photos, files,
                              now, issued, reqs>>

get_patient ==
    /\ Idle
    /\ \E token \in RequestTokens :
        LET user == get_current_user(token) IN
        IF user = NoUser THEN Unauthorized("get_patient", token)
        ELSE \E pid \in PatientIds :
            IF owned_patient(pid, user) = {} THEN Abort("get_patient", token, 404, user, pid)
            ELSE /\ Reply("get_patient", token, 200, user, pid, {PatientOut(pid)})
                 /\ UNCHANGED <<store, seq, now, issued, reqs>>

update_patient ==
    /\ Idle
    /\ \E token \in RequestTokens :
        LET user == get_current_user(token) IN
        IF user = NoUser THEN Unauthorized("update_patient", token)
        ELSE \E pid \in PatientIds :
            IF owned_patient(pid, user) = {} THEN Abort("update_patient", token, 404, user, pid)
            ELSE \E body \in PatientBodies : LET row == setattrs(patients[pid], PatientCreate_dict(body)) IN
                 /\ patients' = [patients EXCEPT ![pid] = row]
                 /\ ReplyTo("update_patient", token, 200, user, pid, body.user_id,
                          {[id |-> pid, user_id |-> row.user_id, name |-> row.name]})
                 /\ UNCHANGED <<users, appointments, notes, vitals, photos, files,
                                seq, now, issued, reqs>>

\* The store deletes and inserts by id: it does not check a patient_id
\* against the Patient table, and deleting a Patient deletes that row only.
foreign_keys_enforced == FALSE
has_children(pid) ==
    \/ \E a \in DOMAIN appointments : appointments[a].patient_id = pid
    \/ \E n \in DOMAIN notes : notes[n].patient_id = pid
    \/ \E v \in DOMAIN vitals : vitals[v].patient_id = pid
    \/ \E f \in DOMAIN photos : photos[f].patient_id = pid

delete_patient ==
    /\ Idle
    /\ \E token \in RequestTokens :
        LET user == get_current_user(token) IN
        IF user = NoUser THEN Unauthorized("delete_patient", token)
        ELSE \E pid \in PatientIds :
            IF owned_patient(pid, user) = {} THEN Abort("delete_patient", token, 404, user, pid)
            ELSE IF foreign_keys_enforced /\ has_children(pid)
            THEN Abort("delete_patient", token, 500, user, pid)
            ELSE /\ patients' = Remove(patients, pid)
                 /\ Reply("delete_patient", token, 200, user, pid, {})
                 /\ UNCHANGED <<users, appointments, notes, vitals, photos, files,
                                seq, now, issued, reqs>>

\* --------------------------------------------------------------- children
\* rows inserted so far in the four child tables (the bound of the model)
ChildRows == (seq.appointment - 1) + (seq.note - 1) + (seq.vital - 1) + (seq.photo - 1)

ChildOut(table, id) == [id |-> id] @@ table[id]

\* ---- citas
list_appointments ==
    /\ Idle
    /\ \E token \in RequestTokens :
        LET user == get_current_user(token) IN
        IF user = NoUser THEN Unauthorized("list_appointments", token)
        ELSE \E pid \in PatientIds :
            IF owned_patient(pid, user) = {} THEN Abort("list_appointments", token, 404, user, pid)
            ELSE /\ Reply("list_appointments", token, 200, user, pid,
                          {ChildOut(appointments, a) :
                              a \in {x \in DOMAIN appointments : appointments[x].patient_id = pid}})
                 /\ UNCHANGED <<store, seq, now, issued, reqs>>

create_appointment ==
    /\ Idle
    /\ \E token \in RequestTokens :
        LET user == get_current_user(token) IN
        IF user = NoUser THEN Unauthorized("create_appointment", token)
        ELSE \E pid \in PatientIds :
            IF owned_patient(pid, user) = {} THEN Abort("create_appointment", token, 404, user, pid)
            ELSE \E body \in ChildBodies : LET aid == seq.appointment
                     row == [patient_id |-> pid] @@ AppointmentCreate_dict(body)
                 IN /\ ChildRows < MaxChildren
                    /\ appointments' = Insert(appointments, aid, row)
                    /\ seq' = [seq EXCEPT !.appointment = aid + 1]
                    /\ ReplyTo("create_appointment", token, 201, user, pid, body.patient_id, {[id |-> aid] @@ row})
                    /\ UNCHANGED <<users, patients, notes, vitals, photos, files,
                                   now, issued, reqs>>

\* create_appointment as two steps of a request that shares the store with
\* others: the checks of main.py:192-196, and the insert of main.py:198-201
create_appointment_check ==
    \E token \in RequestTokens :
        LET user == get_current_user(token) IN
        IF user = NoUser THEN Unauthorized("create_appointment", token)
        ELSE \E pid \in PatientIds :
            IF owned_patient(pid, user) = {} THEN Abort("create_appointment", token, 404, user, pid)
            ELSE \E body \in ChildBodies :
                 /\ seq.request <= MaxRequests
                 /\ reqs' = reqs \cup {[rid |-> seq.request, token |-> token, user |-> user,
                                        pid |-> pid, body |-> body]}
                 /\ seq' = [seq EXCEPT !.request = seq.request + 1]
                 /\ UNCHANGED <<store, now, issued, resp>>

create_appointment_insert ==
    \E r \in reqs :
        LET aid == seq.appointment
            row == [patient_id |-> r.pid] @@ AppointmentCreate_dict(r.body)
        IN /\ reqs' = reqs \ {r}
           /\ IF foreign_keys_enforced /\ r.pid \notin DOMAIN patients
              THEN /\ Reply("create_appointment", r.token, 500, r.user, r.pid, {})
                   /\ UNCHANGED <<store, seq, now, issued>>
              ELSE /\ ChildRows < MaxChildren
                   /\ appointments' = Insert(appointments, aid, row)
                   /\ seq' = [seq EXCEPT !.appointment = aid + 1]
                   /\ ReplyTo("create_appointment", r.token, 201, r.user, r.pid, r.body.patient_id,
                              {[id |-> aid] @@ row})
                   /\ UNCHANGED <<users, patients, notes, vitals, photos, files,
                                  now, issued>>

update_appointment ==
    /\ Idle
    /\ \E token \in RequestTokens :
        LET user == get_current_user(token) IN
        IF user = NoUser THEN Unauthorized("update_appointment", token)
        ELSE \E aid \in ChildIds :
            IF aid \notin DOMAIN appointments
            THEN Abort("update_appointment", token, 404, user, aid)
            ELSE IF owned_patient(appointments[aid].patient_id, user) = {}
            THEN Abort("update_appointment", token, 403, user, aid)
            ELSE \E body \in ChildBodies : LET row == setattrs(appointments[aid], AppointmentCreate_dict(body)) IN
                 /\ appointments' = [appointments EXCEPT ![aid] = row]
                 /\ ReplyTo("update_appointment", token, 200, user, aid, body.patient_id, {[id |-> aid] @@ row})
                 /\ UNCHANGED <<users, patients, notes, vitals, photos, files,
                                seq, now, issued, reqs>>

delete_appointment ==
    /\ Idle
    /\ \E token \in RequestTokens :
        LET user == get_current_user(token) IN
        IF user = NoUser THEN Unauthorized("delete_appointment", token)
        ELSE \E aid \in ChildIds :
            IF aid \notin DOMAIN appointments
            THEN Abort("delete_appointment", token, 404, user, aid)
            ELSE IF owned_patient(appointments[aid].patient_id, user) = {}
            THEN Abort("delete_appointment", token, 403, user, aid)
            ELSE /\ appointments' = Remove(appointments, aid)
                 /\ Reply("delete_appointment", token, 200, user, aid, {})
                 /\ UNCHANGED <<users, patients, notes, vitals, photos, files,
                                seq, now, issued, reqs>>

\* ---- notas medicas
list_notes ==
    /\ Idle
    /\ \E token \in RequestTokens :
        LET user == get_current_user(token) IN
        IF user = NoUser THEN Unauthorized("list_notes", token)
        ELSE \E pid \in PatientIds :
            IF owned_patient(pid, user) = {} THEN Abort("list_notes", token, 404, user, pid)
            ELSE /\ Reply("list_notes", token, 200, user, pid,
                          {ChildOut(notes, n) :
                              n \in {x \in DOMAIN notes : notes[x].patient_id = pid}})
                 /\ UNCHANGED <<store, seq, now, issued, reqs>>

create_note ==
    /\ Idle
    /\ \E token \in RequestTokens :
        LET user == get_current_user(token) IN
        IF user = NoUser THEN Unauthorized("create_note", token)
        ELSE \E pid \in PatientIds :
            IF owned_patient(pid, user) = {} THEN Abort("create_note", token, 404, user, pid)
            ELSE \E body \in NoteBodies : LET nid == seq.note
                     row == [patient_id |-> pid, text |-> body.text]
                 IN /\ ChildRows < MaxChildren
                    /\ notes' = Insert(notes, nid, row)
                    /\ seq' = [seq EXCEPT !.note = nid + 1]
                    /\ ReplyTo("create_note", token, 201, user, pid, body.patient_id, {[id |-> nid] @@ row})
                    /\ UNCHANGED <<users, patients, appointments, vitals, photos, files,
                                   now, issued, reqs>>

update_note ==
    /\ Idle
    /\ \E token \in RequestTokens :
        LET user == get_current_user(token) IN
        IF user = NoUser THEN Unauthorized("update_note", token)
        ELSE \E nid \in ChildIds :
            IF nid \notin DOMAIN notes
            THEN Abort("update_note", token, 404, user, nid)
            ELSE IF owned_patient(notes[nid].patient_id, user) = {}
            THEN Abort("update_note", token, 403, user, nid)
            ELSE \E body \in NoteBodies : LET row == [notes[nid] EXCEPT !.text = body.text] IN
                 /\ notes' = [notes EXCEPT ![nid] = row]
                 /\ ReplyTo("update_note", token, 200, user, nid, body.patient_id, {[id |-> nid] @@ row})
                 /\ UNCHANGED <<users, patients, appointments, vitals, photos, files,
                                seq, now, issued, reqs>>

delete_note ==
    /\ Idle
    /\ \E token \in RequestTokens :
        LET user == get_current_user(token) IN
        IF user = NoUser THEN Unauthorized("delete_note", token)
        ELSE \E nid \in ChildIds :
            IF nid \notin DOMAIN notes
            THEN Abort("delete_note", token, 404, user, nid)
            ELSE IF owned_patient(notes[nid].patient_id, user) = {}
            THEN Abort("delete_note", token, 403, user, nid)
            ELSE /\ notes' = Remove(notes, nid)
                 /\ Reply("delete_note", token, 200, user, nid, {})
                 /\ UNCHANGED <<users, patients, appointments, vitals, photos, files,
                                seq, now, issued, reqs>>

\* ---- signos vitales
list_vitals ==
    /\ Idle
    /\ \E token \in RequestTokens :
        LET user == get_current_user(token) IN
        IF user = NoUser THEN Unauthorized("list_vitals", token)
        ELSE \E pid \in PatientIds :
            IF owned_patient(pid, user) = {} THEN Abort("list_vitals", token, 404, user, pid)
            ELSE /\ Reply("list_vitals", token, 200, user, pid,
                          {ChildOut(vitals, v) :
                              v \in {x \in DOMAIN vitals : vitals[x].patient_id = pid}})
                 /\ UNCHANGED <<store, seq, now, issued, reqs>>

create_vital ==
    /\ Idle
    /\ \E token \in RequestTokens :
        LET user == get_current_user(token) IN
        IF user = NoUser THEN Unauthorized("create_vital", token)
        ELSE \E pid \in PatientIds :
            IF owned_patient(pid, user) = {} THEN Abort("create_vital", token, 404, user, pid)
            ELSE \E body \in ChildBodies : LET vid == seq.vital
                     row == [patient_id |-> pid] @@ VitalSignCreate_dict(body)
                 IN /\ ChildRows < MaxChildren
                    /\ vitals' = Insert(vitals, vid, row)
                    /\ seq' = [seq EXCEPT !.vital = vid + 1]
                    /\ ReplyTo("create_vital", token, 201, user, pid, body.patient_id, {[id |-> vid] @@ row})
                    /\ UNCHANGED <<users, patients, appointments, notes, photos, files,
                                   now, issued, reqs>>

update_vital ==
    /\ Idle
    /\ \E token \in RequestTokens :
        LET user == get_current_user(token) IN
        IF user = NoUser THEN Unauthorized("update_vital", token)
        ELSE \E vid \in ChildIds :
            IF vid \notin DOMAIN vitals
            THEN Abort("update_vital", token, 404, user, vid)
            ELSE IF owned_patient(vitals[vid].patient_id, user) = {}
            THEN Abort("update_vital", token, 403, user, vid)
            ELSE \E body \in ChildBodies : LET row == setattrs(vitals[vid], VitalSignCreate_dict(body)) IN
                 /\ vitals' = [vitals EXCEPT ![vid] = row]
                 /\ ReplyTo("update_vital", token, 200, user, vid, body.patient_id, {[id |-> vid] @@ row})
                 /\ UNCHANGED <<users, patients, appointments, notes, photos, files,
                                seq, now, issued, reqs>>

delete_vital ==
    /\ Idle
    /\ \E token \in RequestTokens :
        LET user == get_current_user(token) IN
        IF user = NoUser THEN Unauthorized("delete_vital", token)
        ELSE \E vid \in ChildIds :
            IF vid \notin DOMAIN vitals
            THEN Abort("delete_vital", token, 404, user, vid)
            ELSE IF owned_patient(vitals[vid].patient_id, user) = {}
            THEN Abort("delete_vital", token, 403, user, vid)
            ELSE /\ vitals' = Remove(vitals, vid)
                 /\ Reply("delete_vital", token, 200, user, vid, {})
                 /\ UNCHANGED <<users, patients, appointments, notes, photos, files,
                                seq, now, issued, reqs>>

\* ---- fotografias
\* a path is the sequence of its components; "/" leads an absolute one
Captions == {None, "d1"}

\* url.startswith("/uploads/")
startswith_uploads(url) == Len(url) >= 2 /\ url[1] = "/" /\ url[2] = "uploads"

\* url.lstrip("/")
RECURSIVE lstrip_slash(_)
lstrip_slash(path) ==
    IF path # <<>> /\ Head(path) = "/" THEN lstrip_slash(Tail(path)) ELSE path

list_photos ==
    /\ Idle
    /\ \E token \in RequestTokens :
        LET user == get_current_user(token) IN
        IF user = NoUser THEN Unauthorized("list_photos", token)
        ELSE \E pid \in PatientIds :
            IF owned_patient(pid, user) = {} THEN Abort("list_photos", token, 404, user, pid)
            ELSE /\ Reply("list_photos", token, 200, user, pid,
                          {ChildOut(photos, f) :
                              f \in {x \in DOMAIN photos : photos[x].patient_id = pid}})
                 /\ UNCHANGED <<store, seq, now, issued, reqs>>

\* variant: upload_photo saving the file before it looks the Patient up
upload_photo_write_first ==
    /\ Idle
    /\ \E token \in RequestTokens :
        LET user == get_current_user(token) IN
        IF user = NoUser THEN Unauthorized("upload_photo", token)
        ELSE \E pid \in PatientIds, file_extension \in Extensions, caption \in Captions :
            LET fid == seq.photo
                unique_filename == <<seq.uuid, file_extension>>
                file_path == <<UPLOAD_DIR, unique_filename>>
                row == [patient_id |-> pid,
                        url |-> <<"/", "uploads", unique_filename>>,
                        caption |-> caption]
            IN /\ ChildRows < MaxChildren
               /\ files' = files \cup {file_path}
               /\ IF owned_patient(pid, user) = {}
                  THEN /\ Reply("upload_photo", token, 404, user, pid, {})
                       /\ seq' = [seq EXCEPT !.uuid = seq.uuid + 1]
                       /\ UNCHANGED <<users, patients, appointments, notes, vitals,
                                      photos, now, issued, reqs>>
                  ELSE /\ photos' = Insert(photos, fid, row)
                       /\ seq' = [seq EXCEPT !.photo = fid + 1, !.uuid = seq.uuid + 1]
                       /\ Reply("upload_photo", token, 201, user, pid, {[id |-> fid] @@ row})
                       /\ UNCHANGED <<users, patients, appointments, notes, vitals,
                                      now, issued, reqs>>

upload_photo ==
    /\ Idle
    /\ \E token \in RequestTokens :
        LET user == get_current_user(token) IN
        IF user = NoUser THEN Unauthorized("upload_photo", token)
        ELSE \E pid \in PatientIds :
            IF owned_patient(pid, user) = {} THEN Abort("upload_photo", token, 404, user, pid)
            ELSE \E file_extension \in Extensions, caption \in Captions : LET fid == seq.photo
                     unique_filename == <<seq.uuid, file_extension>>
                     file_path == <<UPLOAD_DIR, unique_filename>>
                     row == [patient_id |-> pid,
                             url |-> <<"/", "uploads", unique_filename>>,
                             caption |-> caption]
                 IN /\ ChildRows < MaxChildren
                    /\ files' = files \cup {file_path}
                    /\ photos' = Insert(photos, fid, row)
                    /\ seq' = [seq EXCEPT !.photo = fid + 1, !.uuid = seq.uuid + 1]
                    /\ Reply("upload_photo", token, 201, user, pid, {[id |-> fid] @@ row})
                    /\ UNCHANGED <<users, patients, appointments, notes, vitals,
                                   now, issued, reqs>>

\* variant: delete_photo without the lookup of the parent Patient
delete_photo_no_check ==
    /\ Idle
    /\ \E token \in RequestTokens :
        LET user == get_current_user(token) IN
        IF user = NoUser THEN Unauthorized("delete_photo", token)
        ELSE \E fid \in ChildIds :
            IF fid \notin DOMAIN photos
            THEN Abort("delete_photo", token, 404, user, fid)
            ELSE /\ files' = IF startswith_uploads(photos[fid].url)
                              THEN files \ {lstrip_slash(photos[fid].url)}
                              ELSE files
                 /\ photos' = Remove(photos, fid)
                 /\ Reply("delete_photo", token, 200, user, fid, {})
                 /\ UNCHANGED <<users, patients, appointments, notes, vitals,
                                seq, now, issued, reqs>>

delete_photo ==
    /\ Idle
    /\ \E token \in RequestTokens :
        LET user == get_current_user(token) IN
        IF user = NoUser THEN Unauthorized("delete_photo", token)
        ELSE \E fid \in ChildIds :
            IF fid \notin DOMAIN photos
            THEN Abort("delete_photo", token, 404, user, fid)
            ELSE IF owned_patient(photos[fid].patient_id, user) = {}
            THEN Abort("delete_photo", token, 403, user, fid)
            ELSE /\ files' = IF startswith_uploads(photos[fid].url)
                              THEN files \ {lstrip_slash(photos[fid].url)}
                              ELSE files
                 /\ photos' = Remove(photos, fid)
                 /\ Reply("delete_photo", token, 200, user, fid, {})
                 /\ UNCHANGED <<users, patients, appointments, notes, vitals,
                                seq, now, issued, reqs>>

\* ------------------------------------------------------------ autenticacion
\* the email and password a register or login request carried
Credentials(email, password) == [email |-> email, password |-> password]

UserOut(uid) == [id |-> uid, name |-> users[uid].name, email |-> users[uid].email]

\* variant: a lookup that never finds the email
user_by_email_none(email) == {}

\* select(User).where(User.email == email).first(), as a set of ids
user_by_email(email) ==
    LET found == {u \in DOMAIN users : users[u].email = email}
    IN IF found = {} THEN {} ELSE {CHOOSE u \in found : \A v \in found : u <= v}

\* the User table declares email unique: a commit that would store a second
\* row with the same email raises IntegrityError
email_unique == TRUE
commit_refused(row) ==
    email_unique /\ \E u \in DOMAIN users : users[u].email = row.email

health ==
    /\ Idle
    /\ Reply("health", NoToken, 200, NoUser, 0, {[estado |-> "activo"]})
    /\ UNCHANGED <<store, seq, now, issued, reqs>>

\* variant: register with the email lookup ahead of the length check
register_lookup_first ==
    /\ Idle
    /\ \E name \in UserNames, email \in Emails, password \in Passwords, salt \in Salts :
        IF user_by_email(email) # {}
        THEN /\ ReplyTo("register", NoToken, 400, NoUser, 0, Credentials(email, password), {[detail |-> "DuplicateEmail"]})
             /\ UNCHANGED <<store, seq, now, issued, reqs>>
        ELSE IF password.bytes > 72
        THEN /\ ReplyTo("register", NoToken, 400, NoUser, 0, Credentials(email, password), {[detail |-> "ValidationError"]})
             /\ UNCHANGED <<store, seq, now, issued, reqs>>
        ELSE \E h \in hash_password(password, salt) :
             LET uid == seq.user
                 row == [name |-> name, email |-> email, password_hash |-> h]
             IN /\ users' = Insert(users, uid, row)
                /\ seq' = [seq EXCEPT !.user = uid + 1]
                /\ ReplyTo("register", NoToken, 201, NoUser, 0, Credentials(email, password),
                           {[id |-> uid, name |-> name, email |-> email]})
                /\ UNCHANGED <<patients, appointments, notes, vitals, photos, files,
                               now, issued, reqs>>

register ==
    /\ Idle
    /\ \E name \in UserNames, email \in Emails, password \in Passwords, salt \in Salts :
        IF password.bytes > 72
        THEN /\ ReplyTo("register", NoToken, 400, NoUser, 0, Credentials(email, password), {[detail |-> "ValidationError"]})
             /\ UNCHANGED <<store, seq, now, issued, reqs>>
        ELSE IF user_by_email(email) # {}
        THEN /\ ReplyTo("register", NoToken, 400, NoUser, 0, Credentials(email, password), {[detail |-> "DuplicateEmail"]})
             /\ UNCHANGED <<store, seq, now, issued, reqs>>
        ELSE \E h \in hash_password(password, salt) :
             IF h = ValueError
             THEN /\ ReplyTo("register", NoToken, 500, NoUser, 0, Credentials(email, password),
                             {[detail |-> "ValueError"]})
                  /\ UNCHANGED <<store, seq, now, issued, reqs>>
             ELSE LET uid == seq.user
                      row == [name |-> name, email |-> email, password_hash |-> h]
                  IN /\ users' = Insert(users, uid, row)
                     /\ seq' = [seq EXCEPT !.user = uid + 1]
                     /\ ReplyTo("register", NoToken, 201, NoUser, 0, Credentials(email, password),
                                {[id |-> uid, name |-> name, email |-> email]})
                     /\ UNCHANGED <<patients, appointments, notes, vitals, photos, files,
                                    now, issued, reqs>>

\* register as two steps of a request that shares the store with others:
\* the checks of main.py:70-76, and the insert of main.py:77-81
register_lookup ==
    \E name \in UserNames, email \in Emails, password \in Passwords :
        IF password.bytes > 72
        THEN /\ ReplyTo("register", NoToken, 400, NoUser, 0, Credentials(email, password), {[detail |-> "ValidationError"]})
             /\ UNCHANGED <<store, seq, now, issued, reqs>>
        ELSE IF user_by_email(email) # {}
        THEN /\ ReplyTo("register", NoToken, 400, NoUser, 0, Credentials(email, password), {[detail |-> "DuplicateEmail"]})
             /\ UNCHANGED <<store, seq, now, issued, reqs>>
        ELSE /\ seq.request <= MaxRequests
             /\ reqs' = reqs \cup {[rid |-> seq.request, name |-> name, email |-> email,
                                    password |-> password]}
             /\ seq' = [seq EXCEPT !.request = seq.request + 1]
             /\ UNCHANGED <<store, now, issued, resp>>

register_insert ==
    \E r \in reqs, salt \in Salts :
      \E h \in hash_password(r.password, salt) :
        LET uid == seq.user
            row == [name |-> r.name, email |-> r.email, password_hash |-> h]
        IN /\ reqs' = reqs \ {r}
           /\ IF commit_refused(row)
              THEN /\ ReplyTo("register", NoToken, 500, NoUser, 0, Credentials(r.email, r.password),
                              {[detail |-> "IntegrityError"]})
                   /\ UNCHANGED <<store, seq, now, issued>>
              ELSE /\ users' = Insert(users, uid, row)
                   /\ seq' = [seq EXCEPT !.user = uid + 1]
                   /\ ReplyTo("register", NoToken, 201, NoUser, 0, Credentials(r.email, r.password),
                              {[id |-> uid, name |-> r.name, email |-> r.email]})
                   /\ UNCHANGED <<patients, appointments, notes, vitals, photos, files,
                                  now, issued>>

\* hash_password called by any caller, with any password
hash_password_call ==
    /\ Idle
    /\ \E password \in Passwords, salt \in Salts :
         \E h \in hash_password(password, salt) :
            ReplyTo("hash_password", NoToken, 0, NoUser, 0, Credentials(None, password), {h})
    /\ UNCHANGED <<store, seq, now, issued, reqs>>

login ==
    /\ Idle
    /\ \E username \in Emails, password \in Passwords :
        LET user == user_by_email(username)
            cred == Credentials(username, password)
        IN
        IF user = {}
        THEN /\ ReplyTo("login", NoToken, 401, NoUser, 0, cred, {})
             /\ UNCHANGED <<store, seq, now, issued, reqs>>
        ELSE \E u \in user : \E verified \in verify_password(password, users[u].password_hash) :
             CASE verified = "ValueError" ->
                    /\ ReplyTo("login", NoToken, 500, NoUser, 0, cred, {})
                    /\ UNCHANGED <<store, seq, now, issued, reqs>>
               [] verified = "False" ->
                    /\ ReplyTo("login", NoToken, 401, NoUser, 0, cred, {})
                    /\ UNCHANGED <<store, seq, now, issued, reqs>>
               [] OTHER ->
                    LET token == create_access_token(str(u), 0, now) IN
                    /\ Cardinality(issued \cup {[token |-> token, iat |-> now]}) <= MaxTokens
                    /\ issued' = issued \cup {[token |-> token, iat |-> now]}
                    /\ ReplyTo("login", NoToken, 200, NoUser, 0, cred, {token})
                    /\ UNCHANGED <<store, seq, now, reqs>>

list_users ==
    /\ Idle
    /\ Reply("list_users", NoToken, 200, NoUser, 0, {UserOut(u) : u \in DOMAIN users})
    /\ UNCHANGED <<store, seq, now, issued, reqs>>

\* ------------------------------------------------------------------- clock
\* the wall clock moves on by a tick or by a day
Tick ==
    \E d \in {1, DefaultDelta} :
        /\ d = 1 => (now % DefaultDelta) < MaxSubTicks
        /\ now + d <= MaxDays * DefaultDelta + MaxSubTicks
        /\ Idle
        /\ now' = now + d
        /\ UNCHANGED <<store, seq, issued, reqs, resp>>

\* ----------------------------------------------------------- specifications
NoRows == [k \in {} |-> 0]
Seq0 == [user |-> 1, patient |-> 1, appointment |-> 1, note |-> 1, vital |-> 1,
         photo |-> 1, uuid |-> 1, request |-> 1]

\* the state after startup: inicializar_bd() on an empty database
InitEmpty ==
    /\ users = NoRows /\ patients = NoRows /\ appointments = NoRows
    /\ notes = NoRows /\ vitals = NoRows /\ photos = NoRows
    /\ files = {} /\ seq = Seq0 /\ now = 0 /\ issued = {} /\ reqs = {}
    /\ resp = NoResp

\* two clinicians have registered and logged in at time 0
Registered ==
    [u \in {1, 2} |-> [name |-> "u",
                        email |-> IF u = 1 THEN "a@x.com" ELSE "b@x.com",
                        password_hash |-> [salt |-> "s1", digest |-> "secret123"]]]
Init ==
    /\ users = Registered /\ patients = NoRows /\ appointments = NoRows
    /\ notes = NoRows /\ vitals = NoRows /\ photos = NoRows
    /\ files = {} /\ seq = [Seq0 EXCEPT !.user = 3] /\ now = 0
    /\ issued = {[token |-> create_access_token(str(u), 0, 0), iat |-> 0] : u \in {1, 2}}
    /\ reqs = {}
    /\ resp = NoResp

Next ==
    \/ list_patients \/ create_patient \/ get_patient \/ update_patient \/ delete_patient
    \/ list_appointments \/ create_appointment \/ update_appointment \/ delete_appointment
    \/ list_notes \/ create_note \/ update_note \/ delete_note
    \/ list_vitals \/ create_vital \/ update_vital \/ delete_vital
    \/ list_photos \/ upload_photo \/ delete_photo
    \/ Return

Spec == Init /\ [][Next]_vars

NextAuth ==
    \/ health \/ register \/ login \/ list_users \/ Tick
    \/ list_patients \/ Return

SpecAuth == InitEmpty /\ [][NextAuth]_vars

\* create_appointment requests running concurrently with the Patient handlers
NextCreateRace ==
    \/ create_patient \/ delete_patient
    \/ create_appointment_check \/ create_appointment_insert
    \/ list_appointments \/ Return

SpecCreateRace == Init /\ [][NextCreateRace]_vars

\* registration, login and the hash operation
NextPassword ==
    \/ register \/ login \/ hash_password_call \/ Return

SpecPassword == InitEmpty /\ [][NextPassword]_vars

\* register requests running concurrently
NextRace ==
    \/ register_lookup \/ register_insert \/ list_users \/ Return

SpecRace == InitEmpty /\ [][NextRace]_vars

\* ===================================================================== claims
PatientReadOps == {"list_patients", "get_patient"}
PatientIdOps == {"get_patient", "update_patient", "delete_patient"}
ChildWriteOps == {"update_appointment", "delete_appointment", "update_note", "delete_note",
                  "update_vital", "delete_vital", "delete_photo"}
ChildCreateOps == {"create_appointment", "create_note", "create_vital", "upload_photo"}

\* the kind of child record an operation works on, and the table of a kind
\* now and after the step
Kinds == {"appointment", "note", "vital", "photo"}
KindOf(op) ==
    CASE op \in {"create_appointment", "update_appointment", "delete_appointment"} -> "appointment"
      [] op \in {"create_note", "update_note", "delete_note"} -> "note"
      [] op \in {"create_vital", "update_vital", "delete_vital"} -> "vital"
      [] OTHER -> "photo"
Table(kind) ==
    CASE kind = "appointment" -> appointments
      [] kind = "note" -> notes
      [] kind = "vital" -> vitals
      [] OTHER -> photos
TableAfter(kind) ==
    CASE kind = "appointment" -> appointments'
      [] kind = "note" -> notes'
      [] kind = "vital" -> vitals'
      [] OTHER -> photos'

\* the request answered by resp' was made by an authenticated user
Authenticated == resp'.uid # NoUser

\* the rows B's list_patients / get_patient return are B's own
ReadsOwnOnly ==
    (resp'.op \in PatientReadOps /\ resp'.status = 200)
        => (\A row \in resp'.body : row.user_id = resp'.uid)

\* update_patient / delete_patient leave the Patients of other users alone
WritesOwnOnly ==
    (resp'.op \in {"update_patient", "delete_patient"})
        => (\A pid \in DOMAIN patients :
              (patients[pid].user_id # resp'.uid)
                => (pid \in DOMAIN patients' /\ patients'[pid] = patients[pid]))

\* C1: a Patient of user A is never in the result of B's list_patients or
\* get_patient, and B's update_patient / delete_patient leave every Patient
\* that B does not own exactly as it was.
C1_PatientIsolation == [][ReadsOwnOnly /\ WritesOwnOnly]_vars

\* B has just tried to update a Patient that exists and belongs to A
C1_Witness ==
    /\ resp.op = "update_patient" /\ resp.uid # NoUser
    /\ resp.id \in DOMAIN patients
    /\ patients[resp.id].user_id # resp.uid

\* what get/update/delete_patient answer a user B about Patient pid when
\* the Patient exists and belongs to another user: `foreign`
PatientStatus(foreign) ==
    (resp'.op \in PatientIdOps /\ Authenticated)
        => LET pid == resp'.id IN
           IF pid \notin DOMAIN patients THEN resp'.status = 404
           ELSE IF patients[pid].user_id # resp'.uid THEN resp'.status = foreign
           ELSE resp'.status = 200

ChildWrite ==
    (resp'.op \in ChildWriteOps /\ Authenticated)
        => LET kind == KindOf(resp'.op)
               t == Table(kind)
               id == resp'.id
               foreign == /\ id \in DOMAIN t
                          /\ t[id].patient_id \in DOMAIN patients
                          /\ patients[t[id].patient_id].user_id # resp'.uid
           IN /\ (id \notin DOMAIN t) => (resp'.status = 404)
              /\ foreign => (resp'.status = 403 /\ TableAfter(kind) = t /\ files' = files)

\* C3: update/delete of a child record (every kind) by a user who does not
\* own its existing parent Patient answers 403 and changes neither the
\* record nor any other row or file; an id with no record answers 404.
C3_ChildIsolation == [][ChildWrite]_vars

\* B has just been refused the deletion of a photo under A's Patient, and
\* the photo and its file are still there
C3_Witness ==
    /\ resp.op = "delete_photo" /\ resp.status = 403 /\ resp.uid # NoUser
    /\ resp.id \in DOMAIN photos
    /\ photos[resp.id].patient_id \in DOMAIN patients
    /\ patients[photos[resp.id].patient_id].user_id # resp.uid
    /\ lstrip_slash(photos[resp.id].url) \in files

\* Scenario C on appointments: the owner's list/update/delete succeed, and
\* another user is answered `listStatus` by list_appointments and 403 by
\* update_appointment and delete_appointment
AppointmentScenario(listStatus) ==
    /\ (/\ resp'.op = "list_appointments" /\ Authenticated
        /\ resp'.id \in DOMAIN patients
        /\ \E a \in DOMAIN appointments : appointments[a].patient_id = resp'.id)
         => IF patients[resp'.id].user_id = resp'.uid
            THEN /\ resp'.status = 200
                 /\ resp'.body = {ChildOut(appointments, a) :
                        a \in {x \in DOMAIN appointments :
                                  appointments[x].patient_id = resp'.id}}
            ELSE resp'.status = listStatus
    /\ (/\ resp'.op \in {"update_appointment", "delete_appointment"} /\ Authenticated
        /\ resp'.id \in DOMAIN appointments
        /\ appointments[resp'.id].patient_id \in DOMAIN patients)
         => IF patients[appointments[resp'.id].patient_id].user_id = resp'.uid
            THEN /\ resp'.status = 200
                 /\ resp'.op = "delete_appointment" => resp'.id \notin DOMAIN appointments'
                 /\ resp'.op = "update_appointment" => resp'.body = {ChildOut(appointments', resp'.id)}
            ELSE /\ resp'.status = 403
                 /\ appointments' = appointments

ChildCreate(foreign) ==
    (resp'.op \in ChildCreateOps /\ Authenticated)
        => LET kind == KindOf(resp'.op)
               t == Table(kind)
               u == TableAfter(kind)
               pid == resp'.id
               rejected == /\ appointments' = appointments /\ notes' = notes
                           /\ vitals' = vitals /\ photos' = photos /\ files' = files
               inserted == /\ Cardinality(DOMAIN u \ DOMAIN t) = 1
                           /\ \A id \in DOMAIN u \ DOMAIN t : u[id].patient_id = pid
                           /\ \A id \in DOMAIN t : id \in DOMAIN u /\ u[id] = t[id]
                           /\ \A k \in Kinds \ {kind} : TableAfter(k) = Table(k)
           IN IF pid \notin DOMAIN patients THEN resp'.status = 404 /\ rejected
              ELSE IF patients[pid].user_id # resp'.uid
              THEN resp'.status = foreign /\ rejected
              ELSE resp'.status = 201 /\ inserted

C6_OwnershipImmutable ==
    [][/\ \A id \in DOMAIN patients \cap DOMAIN patients' :
             patients'[id].user_id = patients[id].user_id
       /\ \A id \in DOMAIN appointments \cap DOMAIN appointments' :
             appointments'[id].patient_id = appointments[id].patient_id
       /\ \A id \in DOMAIN notes \cap DOMAIN notes' :
             notes'[id].patient_id = notes[id].patient_id
       /\ \A id \in DOMAIN vitals \cap DOMAIN vitals' :
             vitals'[id].patient_id = vitals[id].patient_id
       /\ \A id \in DOMAIN patients' \ DOMAIN patients :
             patients'[id].user_id = resp'.uid
       /\ \A id \in DOMAIN appointments' \ DOMAIN appointments :
             appointments'[id].patient_id = resp'.id
       /\ \A id \in DOMAIN notes' \ DOMAIN notes : notes'[id].patient_id = resp'.id
       /\ \A id \in DOMAIN vitals' \ DOMAIN vitals : vitals'[id].patient_id = resp'.id
      ]_vars

\* an update whose body named another user as owner has just succeeded, and
\* the Patient still belongs to the requester
C6_Witness ==
    /\ resp.op = "update_patient" /\ resp.status = 200
    /\ resp.extra \notin {0, resp.uid}
    /\ patients[resp.id].user_id = resp.uid

\* C7: an operation answered 403 or 404 leaves every table and the upload
\* directory as they were.
C7_RejectedLeavesStore ==
    [][resp'.status \in {403, 404} => UNCHANGED <<store, seq>>]_vars

\* an upload under another user's Patient has just been refused and no file
\* has ever been written
C7_Witness ==
    /\ resp.op = "upload_photo" /\ resp.status = 404
    /\ resp.id \in DOMAIN patients /\ patients[resp.id].user_id # resp.uid
    /\ files = {} /\ seq.uuid = 1

ResourceOps ==
    {"list_patients", "create_patient", "get_patient", "update_patient", "delete_patient",
     "list_appointments", "create_appointment", "update_appointment", "delete_appointment",
     "list_notes", "create_note", "update_note", "delete_note",
     "list_vitals", "create_vital", "update_vital", "delete_vital",
     "list_photos", "upload_photo", "delete_photo"}

\* the causes of C9: no token, a signature made with another key, an expiry
\* in the past, a missing or non-numeric subject, a subject that is the id
\* of no User
TokenRejected(token) ==
    \/ token = NoToken
    \/ token.key # SECRET_KEY
    \/ token.exp < timegm(now)
    \/ token.sub = None
    \/ ~ \E n \in 1..Len(Digits) : token.sub \in Literals[n]
    \/ ~ \E u \in DOMAIN users : token.sub \in Literals[u]

\* C9: every operation on patients, appointments, notes, vitals and photos
\* answers 401 for each of these causes, whatever id it is given, returns
\* no record and changes nothing; with none of them it is not answered 401.
C9_BadTokenIs401 ==
    [][resp'.op \in ResourceOps
         => IF TokenRejected(resp'.token)
            THEN /\ resp'.status = 401 /\ resp'.body = {} /\ resp'.uid = NoUser
                 /\ UNCHANGED <<store, seq>>
            ELSE resp'.status # 401 /\ resp'.uid \in DOMAIN users
      ]_vars

\* a delete with a well-signed, unexpired token whose subject is the id of
\* no User has just been answered 401 while Patients are stored
C9_Witness ==
    /\ resp.op = "delete_patient" /\ resp.status = 401
    /\ resp.token.key = SECRET_KEY /\ resp.token.exp >= timegm(now)
    /\ resp.token.sub = "9"
    /\ DOMAIN patients # {}

\* C10 as stated: every use of a token at a clock time after its issue time
\* plus the time-to-live is answered 401.
C10_Original ==
    \A i \in issued :
        (resp.op = "list_patients" /\ resp.token = i.token /\ now > i.iat + DefaultDelta)
            => resp.status = 401

\* the whole second a token issued at clock time iat expires in
ExpirySecond(iat) == timegm(iat + DefaultDelta)

\* C10 amended: a token issued at t is rejected by every call made once the
\* clock, in whole seconds, is past t+ttl in whole seconds, and by no call
\* before (its User is never removed and nothing revokes it); once rejected
\* it is rejected for ever.
C10_Expiry ==
    /\ [](\A i \in issued :
            /\ get_current_user(i.token) =
                 (IF timegm(now) > ExpirySecond(i.iat) THEN NoUser ELSE int(i.token.sub))
            /\ (resp.op = "list_patients" /\ resp.token = i.token)
                 => (resp.status = 401 <=> timegm(now) > ExpirySecond(i.iat)))
    /\ [][\A i \in issued :
            get_current_user(i.token) = NoUser => get_current_user(i.token)' = NoUser]_vars

\* a token login returned has just been refused, its expiry second passed
C10_Witness ==
    /\ resp.op = "list_patients" /\ resp.status = 401
    /\ \E i \in issued : resp.token = i.token /\ timegm(now) > ExpirySecond(i.iat)

\* I5
UniqueEmails ==
    \A u, v \in DOMAIN users : users[u].email = users[v].email => u = v

\* a register whose lookup finds its email in the store is answered 400
\* DuplicateEmail and adds no User, and does not go on to the insert
DuplicateRefused ==
    /\ (/\ resp'.op = "register" /\ reqs' = reqs
        /\ resp'.body # {[detail |-> "ValidationError"]}
        /\ \E u \in DOMAIN users : users[u].email = resp'.extra.email)
         => (/\ resp'.status = 400
             /\ resp'.body = {[detail |-> "DuplicateEmail"]}
             /\ users' = users)
    /\ \A r \in reqs' \ reqs :
          ~ \E u \in DOMAIN users : users[u].email = r.email

TTLs == {1, TicksPerSecond, DefaultDelta}

\* C11: at the clock time a token is issued for User u, with any time to
\* live above 0, the token resolves to u: login writes the subject as
\* str(u) and get_current_user reads it back with int() as u, the id of no
\* other user; the token login has just returned resolves to the User whose
\* email the request carried.
C11_TokenRoundTrip ==
    /\ \A u \in DOMAIN users, ttl \in TTLs :
          get_current_user(create_access_token(str(u), ttl, now)) = u
    /\ (resp.op = "login" /\ resp.status = 200)
          => \A token \in resp.body :
               /\ get_current_user(token) \in DOMAIN users
               /\ users[get_current_user(token)].email = resp.extra.email

\* login has just returned a token to the second of two Users, some time
\* after startup
C11_Witness ==
    /\ resp.op = "login" /\ resp.status = 200
    /\ Cardinality(DOMAIN users) = 2
    /\ users[2].email = resp.extra.email
    /\ now > 0

\* C12: a register whose password is longer than 72 bytes is answered 400
\* ValidationError and leaves the store as it was, no User added; the check
\* comes first: the answer is ValidationError also when the email is already
\* registered, and never the failure of a hash that was attempted.
C12_LongPasswordRejected ==
    [][(resp'.op = "register" /\ resp'.extra.password.bytes > 72)
         => /\ resp'.status = 400
            /\ resp'.body = {[detail |-> "ValidationError"]}
            /\ UNCHANGED <<store, seq>>
      ]_vars

\* a register with a 73-byte password and an email some User already has
\* has just been refused
C12_Witness ==
    /\ resp.op = "register" /\ resp.status = 400
    /\ resp.extra.password.bytes = 73
    /\ \E u \in DOMAIN users : users[u].email = resp.extra.email

RegisteredPassword(u) ==
    CHOOSE password \in Passwords :
        password.bytes <= 72 /\ password.head = users[u].password_hash.digest

\* C14: login with the email and password of a registered User is answered
\* 200 with a token that resolves to that User; login with that email and
\* any other password, or with an email no User has, is refused with no
\* token (401; a 500 is taken for a refusal too).
C14_LoginChecksPassword ==
    resp.op = "login"
        => LET known == {u \in DOMAIN users : users[u].email = resp.extra.email} IN
           IF \E u \in known : RegisteredPassword(u) = resp.extra.password
           THEN /\ resp.status = 200
                /\ resp.body # {}
                /\ \A token \in resp.body : get_current_user(token) \in known
           ELSE resp.status \in {401, 500} /\ resp.body = {}

\* what update / delete of a child record answer when the record exists and
\* its patient_id is the id of no Patient: `status`, the record left as it was
OrphanWrite(status) ==
    (/\ resp'.op \in ChildWriteOps /\ Authenticated
     /\ resp'.id \in DOMAIN Table(KindOf(resp'.op))
     /\ Table(KindOf(resp'.op))[resp'.id].patient_id \notin DOMAIN patients)
        => (resp'.status = status /\ UNCHANGED <<store, seq>>)

C16_ParentExistsAtInsert ==
    [][\A a \in DOMAIN appointments' \ DOMAIN appointments :
          appointments'[a].patient_id \in DOMAIN patients]_vars

\* C18: every stored Appointment, MedicalNote, VitalSign and Photo has a
\* patient_id that is the id of a stored Patient.
C18_NoOrphans ==
    \A kind \in Kinds : \A id \in DOMAIN Table(kind) :
        Table(kind)[id].patient_id \in DOMAIN patients

\* the operations open to a request without a token
PublicOps == {"register", "login", "health"}

\* C17: apart from register, login and health, an operation returns no
\* User, Patient or child record to a request whose token resolves to no
\* User.
C17_TokenRequired ==
    (resp.op \notin PublicOps \cup {"none"} /\ get_current_user(resp.token) = NoUser)
        => resp.body = {}

====
